---- MODULE Spec2Model ----
(***************************************************************************)
(* Model of packages/masp-web/lib/src/utils.rs: the console logging bridge *)
(* of masp-web.  The bridge imports console.log from the host (`log`) and  *)
(* exposes console_log (forwards a &str) and console_log_any (formats a    *)
(* value with "{:?}" and forwards the resulting String).                   *)
(*                                                                         *)
(* Text is a sequence of one-character strings, so that formatting is      *)
(* computed character by character.                                        *)
(***************************************************************************)
EXTENDS Integers, Sequences, FiniteSets, TLC

\* Number of calls the host makes in one run.
MaxCalls == 2

\* Host threads that may call into the bridge.  A wasm instance is driven by
\* one thread ("main"); "worker" exists for the concurrent specification.
Callers == {"main", "worker"}

\* ------------------------------------------------------------------ values

\* Text arguments handed to console_log (the `string: &str` of line 10).
Texts ==
    { <<>>, <<"a">>, <<"4", "2">>, <<"\"">>, <<"a", "\\">>, <<"\n", "b">> }

\* A value of some type T: Debug (line 14): a str, an i32 or a Vec<i32>.
\* Every field is always present so that values of different types compare.
Str(s)   == [t |-> "str",  s |-> s,    i |-> 0, l |-> <<>>]
IntV(i)  == [t |-> "int",  s |-> <<>>, i |-> i, l |-> <<>>]
ListV(l) == [t |-> "list", s |-> <<>>, i |-> 0, l |-> l]

Ints == {-7, 0, 42}
Lists == { <<>>, <<1, 2, 3>> }

DebugValues ==
    {Str(s) : s \in Texts} \cup {IntV(i) : i \in Ints} \cup {ListV(l) : l \in Lists}

\* Errors the host sink can raise when it is called.
SinkErrors == {"TypeError", "RangeError"}

\* -------------------------------------------------- format!("{:?}", value)

DigitChar(d) == <<"0", "1", "2", "3", "4", "5", "6", "7", "8", "9">>[d + 1]

RECURSIVE Digits(_)
Digits(n) ==
    IF n < 10 THEN <<DigitChar(n)>>
    ELSE Digits(n \div 10) \o <<DigitChar(n % 10)>>

\* A wrong rendering of an integer: the sign is lost.
DebugIntNoSign(i) == IF i < 0 THEN Digits(-i) ELSE Digits(i)

\* <i32 as Debug>::fmt: decimal digits, '-' in front of a negative number.
DebugInt(i) == IF i < 0 THEN <<"-">> \o Digits(-i) ELSE Digits(i)

\* char::escape_debug for the characters of a str: '"', '\' and newline are
\* escaped with a backslash, every other printable character is itself.
EscapeChar(c) ==
    CASE c = "\"" -> <<"\\", "\"">>
      [] c = "\\" -> <<"\\", "\\">>
      [] c = "\n" -> <<"\\", "n">>
      [] OTHER    -> <<c>>

RECURSIVE EscapeText(_)
EscapeText(s) ==
    IF s = <<>> THEN <<>> ELSE EscapeChar(Head(s)) \o EscapeText(Tail(s))

\* A wrong rendering of a str: Display ("{}") instead of Debug ("{:?}").
DebugStrAsDisplay(s) == s

\* <str as Debug>::fmt: the escaped text between double quotes.
DebugStr(s) == <<"\"">> \o EscapeText(s) \o <<"\"">>

RECURSIVE DebugItems(_)
DebugItems(l) ==
    IF l = <<>> THEN <<>>
    ELSE IF Len(l) = 1 THEN DebugInt(l[1])
    ELSE DebugInt(Head(l)) \o <<",", " ">> \o DebugItems(Tail(l))

\* <Vec<i32> as Debug>::fmt: "[" items separated by ", " "]".
DebugList(l) == <<"[">> \o DebugItems(l) \o <<"]">>

\* format!("{:?}", string) of line 15.
DebugFmt(v) ==
    CASE v.t = "str"  -> DebugStr(v.s)
      [] v.t = "int"  -> DebugInt(v.i)
      [] v.t = "list" -> DebugList(v.l)

\* -------------------------------------------------------------------- state

VARIABLES
    pc,        \* per caller: where its call into the bridge stands
    call,      \* per caller: the function called and the caller's argument
    buf,       \* per caller: the text the bridge holds for the sink (0 or 1)
    invoked,   \* per caller: times `log` was invoked during the current call
    raised,    \* per caller: the error the sink raised (0 or 1)
    hostErr,   \* per caller: the error that reached the host (0 or 1)
    pre,       \* per caller: the sink as it was when the call was entered
    sink,      \* the deliveries console.log has received, in order
    hist,      \* the calls made so far, in the order they were entered
    returned,  \* number of calls that returned normally
    threw      \* number of calls ended by an error of the sink

vars == <<pc, call, buf, invoked, raised, hostErr, pre, sink, hist, returned, threw>>

NoCall == [fn |-> "none", arg |-> Str(<<>>)]

InCall(p) == pc[p] \in {"at_format", "at_log", "logged"}

Quiescent == \A p \in Callers : ~InCall(p)

\* A module with hidden output at load time.
InitWithBanner ==
    /\ pc = [p \in Callers |-> "idle"]
    /\ call = [p \in Callers |-> NoCall]
    /\ buf = [p \in Callers |-> <<>>]
    /\ invoked = [p \in Callers |-> 0]
    /\ raised = [p \in Callers |-> <<>>]
    /\ hostErr = [p \in Callers |-> <<>>]
    /\ pre = [p \in Callers |-> <<>>]
    /\ sink = << <<"a">> >>
    /\ hist = <<>>
    /\ returned = 0
    /\ threw = 0

\* The module defines no static, no start function and no initializer: loading
\* it calls nothing.
Init ==
    /\ pc = [p \in Callers |-> "idle"]
    /\ call = [p \in Callers |-> NoCall]
    /\ buf = [p \in Callers |-> <<>>]
    /\ invoked = [p \in Callers |-> 0]
    /\ raised = [p \in Callers |-> <<>>]
    /\ hostErr = [p \in Callers |-> <<>>]
    /\ pre = [p \in Callers |-> <<>>]
    /\ sink = <<>>
    /\ hist = <<>>
    /\ returned = 0
    /\ threw = 0

\* ------------------------------------------------------------------ actions

\* Entry of a call: the frame is fresh, the call is recorded.
Enter(p, f, v, held) ==
    /\ ~InCall(p)
    /\ Len(hist) < MaxCalls
    /\ pc' = [pc EXCEPT ![p] = IF f = "console_log" THEN "at_log" ELSE "at_format"]
    /\ call' = [call EXCEPT ![p] = [fn |-> f, arg |-> v]]
    /\ buf' = [buf EXCEPT ![p] = held]
    /\ invoked' = [invoked EXCEPT ![p] = 0]
    /\ raised' = [raised EXCEPT ![p] = <<>>]
    /\ hostErr' = [hostErr EXCEPT ![p] = <<>>]
    /\ pre' = [pre EXCEPT ![p] = sink]
    /\ hist' = Append(hist, [fn |-> f, arg |-> v])
    /\ UNCHANGED <<sink, returned, threw>>

\* A console_log that drops the first character of its argument.
console_log_trimmed(p, s) ==
    Enter(p, "console_log", Str(s), <<IF s = <<>> THEN s ELSE Tail(s)>>)

\* pub fn console_log(string: &str): the borrowed text is what goes to `log`.
console_log(p, s) == Enter(p, "console_log", Str(s), <<s>>)

\* pub fn console_log_any<T: Debug>(string: &T): nothing is formatted yet.
console_log_any(p, v) == Enter(p, "console_log_any", v, <<>>)

\* A Format whose format string is "{:?}\n".
FormatWithNewline(p) ==
    /\ pc[p] = "at_format"
    /\ pc' = [pc EXCEPT ![p] = "at_log"]
    /\ buf' = [buf EXCEPT ![p] = <<DebugFmt(call[p].arg) \o <<"\n">> >>]
    /\ UNCHANGED <<call, invoked, raised, hostErr, pre, sink, hist, returned, threw>>

\* format!("{:?}", string).as_str(): the temporary String of line 15.
Format(p) ==
    /\ pc[p] = "at_format"
    /\ pc' = [pc EXCEPT ![p] = "at_log"]
    /\ buf' = [buf EXCEPT ![p] = <<DebugFmt(call[p].arg)>>]
    /\ UNCHANGED <<call, invoked, raised, hostErr, pre, sink, hist, returned, threw>>

\* The step every variant of a successful `log` shares, given the new sink.
Logged(p, newSink) ==
    /\ pc[p] = "at_log"
    /\ pc' = [pc EXCEPT ![p] = "logged"]
    /\ invoked' = [invoked EXCEPT ![p] = @ + 1]
    /\ sink' = newSink
    /\ UNCHANGED <<call, buf, raised, hostErr, pre, hist, returned, threw>>

\* A bridge that calls `log` a second time with the same text.
LogOkTwice(p) == Logged(p, Append(Append(sink, buf[p][1]), buf[p][1]))

\* A bridge that queues the text instead of handing it to the sink.
LogOkDeferred(p) == Logged(p, sink)

\* A bridge that keeps a line counter and tags every line after the first.
LogOkNumbered(p) ==
    Logged(p, Append(sink, IF sink = <<>> THEN buf[p][1] ELSE <<"#">> \o buf[p][1]))

\* A bridge with one buffer shared by all callers: the text delivered is the
\* text of whichever caller holds one.
LogOkShared(p) ==
    Logged(p, Append(sink, buf[CHOOSE q \in Callers : buf[q] # <<>>][1]))

\* log(string) / log(format!(..).as_str()) of lines 11 and 15, the sink taking
\* the text: console.log receives exactly the text the bridge holds, the call
\* is synchronous and the delivery is atomic.
LogOk(p) == Logged(p, Append(sink, buf[p][1]))

\* The step every variant of a failing `log` shares.
Thrown(p, e, seen, next) ==
    /\ pc[p] = "at_log"
    /\ pc' = [pc EXCEPT ![p] = next]
    /\ invoked' = [invoked EXCEPT ![p] = @ + 1]
    /\ raised' = [raised EXCEPT ![p] = <<e>>]
    /\ hostErr' = [hostErr EXCEPT ![p] = seen]
    /\ buf' = [buf EXCEPT ![p] = IF next = "failed" THEN <<>> ELSE @]
    /\ threw' = IF next = "failed" THEN threw + 1 ELSE threw
    /\ UNCHANGED <<call, pre, sink, hist, returned>>

\* A bridge that catches the error of the sink and tries once more.
LogThrowRetry(p, e) ==
    /\ invoked[p] = 0
    /\ Thrown(p, e, <<>>, "at_log")

\* The sink raises e.  `log` is imported without `catch` (lines 4-8) and
\* neither function handles anything: the error unwinds the call and reaches
\* the host as raised.  Nothing was delivered.
LogThrow(p, e) == Thrown(p, e, <<e>>, "failed")

\* End of console_log / console_log_any (lines 12 and 16): the borrow of the
\* argument and the temporary String end with the call.
Return(p) ==
    /\ pc[p] = "logged"
    /\ pc' = [pc EXCEPT ![p] = "done"]
    /\ buf' = [buf EXCEPT ![p] = <<>>]
    /\ returned' = returned + 1
    /\ UNCHANGED <<call, invoked, raised, hostErr, pre, sink, hist, threw>>

\* ----------------------------------------------------------- specifications

\* The caller of the single-threaded host.
Main == "main"

\* One host thread: a call is entered only when none is in progress.
Next ==
    \/ \E s \in Texts : console_log(Main, s)
    \/ \E v \in DebugValues : console_log_any(Main, v)
    \/ Format(Main)
    \/ LogOk(Main)
    \/ \E e \in SinkErrors : LogThrow(Main, e)
    \/ Return(Main)

Spec == Init /\ [][Next]_vars

\* Several host threads calling concurrently, the sink atomic.
NextConc ==
    \/ \E p \in Callers, s \in Texts : console_log(p, s)
    \/ \E p \in Callers, v \in DebugValues : console_log_any(p, v)
    \/ \E p \in Callers : Format(p)
    \/ \E p \in Callers : LogOk(p)
    \/ \E p \in Callers, e \in SinkErrors : LogThrow(p, e)
    \/ \E p \in Callers : Return(p)

SpecConc == Init /\ [][NextConc]_vars

TypeOK ==
    /\ pc \in [Callers -> {"idle", "at_format", "at_log", "logged", "done", "failed"}]
    /\ \A p \in Callers :
        /\ Len(buf[p]) <= 1
        /\ invoked[p] \in 0..1
        /\ Len(raised[p]) <= 1
        /\ Len(hostErr[p]) <= 1
    /\ Len(hist) <= MaxCalls
    /\ Len(sink) <= MaxCalls
    /\ returned \in 0..MaxCalls
    /\ threw \in 0..MaxCalls

\* ------------------------------------------------------------------- claims

Last(q) == q[Len(q)]

\* The text a recorded call is meant to hand to the sink.
ExpectedText(c) == IF c.fn = "console_log" THEN c.arg.s ELSE DebugFmt(c.arg)

Count(q, x) == Cardinality({k \in 1..Len(q) : q[k] = x})

Finished(p) == pc[p] \in {"logged", "done"}

\* C1: a call console_log(s) that has run appended exactly one delivery to the
\* sink as it was when the call was entered, that delivery is s unchanged, and
\* this holds for the empty s too.
C1_ConsoleLogVerbatim ==
    (Finished(Main) /\ call[Main].fn = "console_log")
        => /\ sink = Append(pre[Main], call[Main].arg.s)
           /\ invoked[Main] = 1

C1_Witness ==
    /\ pc[Main] = "done"
    /\ call[Main].fn = "console_log"
    /\ call[Main].arg.s = <<>>
    /\ Len(pre[Main]) = 1
    /\ sink = Append(pre[Main], <<>>)

\* C2: a call console_log_any(v) that has run appended exactly one delivery,
\* the debug rendering of v: 42 is delivered as "42", -7 as "-7", the list
\* 1, 2, 3 as "[1, 2, 3]" and the empty list as "[]".
C2_ConsoleLogAnyDebug ==
    (Finished(Main) /\ call[Main].fn = "console_log_any")
        => /\ sink = Append(pre[Main], DebugFmt(call[Main].arg))
           /\ invoked[Main] = 1
           /\ call[Main].arg = IntV(42) => Last(sink) = <<"4", "2">>
           /\ call[Main].arg = IntV(-7) => Last(sink) = <<"-", "7">>
           /\ call[Main].arg = IntV(0) => Last(sink) = <<"0">>
           /\ call[Main].arg = ListV(<<1, 2, 3>>)
                => Last(sink) = <<"[", "1", ",", " ", "2", ",", " ", "3", "]">>
           /\ call[Main].arg = ListV(<<>>) => Last(sink) = <<"[", "]">>

C2_Witness ==
    /\ pc[Main] = "done"
    /\ call[Main] = [fn |-> "console_log_any", arg |-> IntV(42)]
    /\ Len(pre[Main]) = 1
    /\ sink = Append(pre[Main], <<"4", "2">>)

\* C3: when the calls made one after the other have all run and the sink never
\* failed, the sink holds as many deliveries as there were calls, and the i-th
\* delivery is the text of the i-th call.
C3_CallOrder ==
    (Quiescent /\ threw = 0)
        => /\ Len(sink) = Len(hist)
           /\ \A k \in 1..Len(hist) : sink[k] = ExpectedText(hist[k])

C3_Witness ==
    /\ Quiescent
    /\ threw = 0
    /\ Len(hist) = 2
    /\ hist[1].fn = "console_log_any"
    /\ hist[2].fn = "console_log"
    /\ sink = <<DebugFmt(hist[1].arg), hist[2].arg.s>>
    /\ sink[1] # sink[2]

\* C4: while no call has been made the sink is empty, and the sink changes
\* only in the step of a call that hands its text to `log`.
C4_NoHiddenOutput ==
    /\ [](hist = <<>> => sink = <<>>)
    /\ [][sink' # sink
            => \E p \in Callers : pc[p] = "at_log" /\ pc'[p] = "logged"]_vars

C4_Witness ==
    /\ hist = <<>>
    /\ sink = <<>>
    /\ \A p \in Callers : pc[p] = "idle"

\* C5: a call console_log_any(v) and a call console_log(r), r the debug
\* rendering of v, made at different points of a run, leave the same delivery
\* in the sink, each exactly one.
C5_SameAsConsoleLog ==
    (Quiescent /\ threw = 0)
        => /\ Len(sink) = Len(hist)
           /\ \A i, j \in 1..Len(hist) :
                (/\ hist[i].fn = "console_log_any"
                 /\ hist[j].fn = "console_log"
                 /\ hist[j].arg.s = DebugFmt(hist[i].arg))
                    => sink[i] = sink[j]

C5_Witness ==
    /\ Quiescent
    /\ threw = 0
    /\ hist = << [fn |-> "console_log_any", arg |-> IntV(42)],
                 [fn |-> "console_log", arg |-> Str(<<"4", "2">>)] >>
    /\ sink = << <<"4", "2">>, <<"4", "2">> >>

\* C6: `log` is invoked at most once in a call; when the sink fails, the call
\* ends with the very error the sink raised reaching the host, and the sink is
\* as it was when the call was entered.
C6_FailurePropagates ==
    /\ invoked[Main] <= 1
    /\ pc[Main] = "failed"
        => /\ invoked[Main] = 1
           /\ raised[Main] # <<>>
           /\ hostErr[Main] = raised[Main]
           /\ sink = pre[Main]

C6_Witness ==
    /\ pc[Main] = "failed"
    /\ call[Main].fn = "console_log_any"
    /\ hostErr[Main] = <<"RangeError">>
    /\ Len(sink) = 1

\* C7: whenever no call is in progress the sink holds one delivery per call
\* that returned and the bridge holds no text; a call about to return has
\* already made its delivery.
C7_DeliveredBeforeReturn ==
    /\ Quiescent
        => /\ Len(sink) = returned
           /\ \A p \in Callers : buf[p] = <<>>
    /\ pc[Main] = "logged" => Len(sink) = returned + 1

C7_Witness ==
    /\ Quiescent
    /\ returned = 2
    /\ Len(sink) = 2

\* C8: two calls with the same function and argument deliver the same text
\* whatever was called before them; a call in progress leaves the caller's
\* argument as it is, and after a call returned the bridge holds nothing.
C8_Stateless ==
    /\ []((Quiescent /\ threw = 0)
            => /\ Len(sink) = Len(hist)
               /\ \A i, j \in 1..Len(hist) : hist[i] = hist[j] => sink[i] = sink[j])
    /\ [](pc[Main] = "done" => buf[Main] = <<>>)
    /\ [][InCall(Main) => call'[Main] = call[Main]]_vars

C8_Witness ==
    /\ Quiescent
    /\ threw = 0
    /\ Len(hist) = 2
    /\ hist[1] = hist[2]
    /\ hist[1].fn = "console_log_any"
    /\ sink[1] = sink[2]
    /\ buf[Main] = <<>>

\* C9: with callers running concurrently, a call that has run invoked `log`
\* once and its own text is among the deliveries made since it was entered;
\* when all calls have run and the sink never failed, the deliveries are the
\* texts of the calls, each once, in some order.
C9_ConcurrentCallers ==
    /\ \A p \in Callers :
        Finished(p)
            => /\ invoked[p] = 1
               /\ \E k \in (Len(pre[p]) + 1)..Len(sink) :
                    sink[k] = ExpectedText(call[p])
    /\ (Quiescent /\ threw = 0)
        => /\ Len(sink) = Len(hist)
           /\ \A k \in 1..Len(hist) :
                Count(sink, ExpectedText(hist[k]))
                    = Cardinality({m \in 1..Len(hist) :
                                     ExpectedText(hist[m]) = ExpectedText(hist[k])})

\* Two calls overlapped and the deliveries are in the opposite order of entry.
C9_Witness ==
    /\ \A p \in Callers : pc[p] = "done"
    /\ threw = 0
    /\ Len(hist) = 2
    /\ pre["main"] = <<>>
    /\ pre["worker"] = <<>>
    /\ sink = <<ExpectedText(hist[2]), ExpectedText(hist[1])>>
    /\ sink[1] # sink[2]

\* C10: for a text s, console_log_any(s) delivers s between double quotes
\* with '"', '\' and newline escaped: never s itself, at least two characters
\* longer, and two quote characters for the empty s.
C10_TextIsQuoted ==
    (Finished(Main) /\ call[Main].fn = "console_log_any" /\ call[Main].arg.t = "str")
        => LET s == call[Main].arg.s
               d == Last(sink)
           IN  /\ d # s
               /\ Len(d) >= Len(s) + 2
               /\ d[1] = "\"" /\ d[Len(d)] = "\""
               /\ s = <<>> => d = <<"\"", "\"">>
               /\ (\E k \in 1..Len(s) : s[k] \in {"\"", "\\", "\n"})
                    => Len(d) > Len(s) + 2

C10_Witness ==
    /\ pc[Main] = "done"
    /\ call[Main] = [fn |-> "console_log_any", arg |-> Str(<<"a", "\\">>)]
    /\ Last(sink) = <<"\"", "a", "\\", "\\", "\"">>

====
